---- MODULE Spec2Model ----
(***************************************************************************)
(* HuggingfaceDatasetSplitReader                                           *)
(* (allennlp/data/dataset_readers/hugging_face_datasets_reader.py).        *)
(*                                                                         *)
(* The reader holds a loaded split (self.dataset) with its feature schema  *)
(* (self.dataset.features).  _read is a generator that converts the        *)
(* entries one by one with text_to_instance; text_to_instance is also a    *)
(* public method a caller may apply to any entry.                          *)
(*                                                                         *)
(* Python values are modelled structurally:                                *)
(*   dict with insertion order      sequence of <<key, value>> pairs       *)
(*   Instance(fields)               function from field name to Field      *)
(*   TextField / LabelField /       records tagged by "type", carrying the *)
(*   ListField                      constructor arguments                  *)
(*   datasets.features descriptors  records tagged by "cls", carrying the  *)
(*                                  attributes the code reads              *)
(***************************************************************************)
EXTENDS Integers, Sequences, FiniteSets, TLC

VARIABLES
    features,   \* self.dataset.features: sequence of <<name, descriptor>>
    dataset,    \* self.dataset: sequence of raw entries (name -> raw value)
    cursor,     \* number of entries the _read generator has pulled
    gen,        \* state of the _read generator
    instances,  \* the Instances the generator has yielded, in order
    raised,     \* the exception that left the generator ("none" if none)
    results     \* per entry, what its latest direct conversion gave the caller

vars == <<features, dataset, cursor, gen, instances, raised, results>>

----------------------------------------------------------------------------
(* Bounds of the model.                                                    *)

\* longest raw list / largest number of languages in one raw value
MaxLen == 2
\* largest number of entries in the loaded split
MaxRecords == 2

\* names of the schema's features, in the schema's iteration order
FeatureNames == <<"a", "b">>

Texts == {"hello world", "bonjour"}
ClassIndices == {0, 1}
Langs == {"en", "fr"}

\* reduced domains used for splits of more than one entry
FewTexts == {"hello world"}
FewLangs == {"en"}

----------------------------------------------------------------------------
(* datasets.features descriptors: the attributes read by text_to_instance. *)

ClassLabel == [cls |-> "ClassLabel", dtype |-> "int64"]
Value(dtype) == [cls |-> "Value", dtype |-> dtype]
Sequence(feature) == [cls |-> "Sequence", dtype |-> "list", feature |-> feature]
Translation == [cls |-> "Translation", dtype |-> "dict"]
TranslationVariableLanguages ==
    [cls |-> "TranslationVariableLanguages", dtype |-> "dict"]
\* a feature class the reader has no branch for
Array2D == [cls |-> "Array2D", dtype |-> "int32"]
\* Sequence(feature = {...}): a plain dict of sub-features, without .dtype
DictFeature == [cls |-> "dict"]

isinstance(value, cls) == value.cls = cls
HasDtype(value) == "dtype" \in DOMAIN value

Descriptors ==
    { ClassLabel, Value("string"), Value("int32"),
      Sequence(Value("string")), Sequence(ClassLabel),
      Sequence(Value("int32")), Sequence(DictFeature),
      Translation, TranslationVariableLanguages, Array2D }

----------------------------------------------------------------------------
(* allennlp fields, as built by their constructors.                        *)

Token(text) == [text |-> text]
TextField(tokens) == [type |-> "TextField", tokens |-> tokens]
LabelField(label, label_namespace, skip_indexing) ==
    [type |-> "LabelField", label |-> label,
     label_namespace |-> label_namespace, skip_indexing |-> skip_indexing]
ListField(field_list) == [type |-> "ListField", field_list |-> field_list]

\* a local name that has not been assigned yet
Unbound == [type |-> "Unbound"]
IsBound(f) == f.type # "Unbound"

----------------------------------------------------------------------------
(* Python dict and list helpers.                                           *)

\* variant: the keys in reverse iteration order
DictKeysReversed(input_dict) ==
    [k \in 1..Len(input_dict) |-> input_dict[Len(input_dict) + 1 - k][1]]
\* list(input_dict.keys())
DictKeys(input_dict) == [k \in 1..Len(input_dict) |-> input_dict[k][1]]

\* input_dict[key]
DictGet(input_dict, key) ==
    input_dict[CHOOSE k \in 1..Len(input_dict) : input_dict[k][1] = key][2]

\* variant: position of the last occurrence
IndexLast(langs, lang) ==
    CHOOSE k \in 1..Len(langs) :
        langs[k] = lang /\ \A j \in (k+1)..Len(langs) : langs[j] # lang
\* langs.index(lang): position of the first occurrence
index(langs, lang) ==
    CHOOSE k \in 1..Len(langs) :
        langs[k] = lang /\ \A j \in 1..(k-1) : langs[j] # lang

\* fields[feature] = field
DictPut(fields, key, val) ==
    [k \in DOMAIN fields \cup {key} |-> IF k = key THEN val ELSE fields[k]]

EmptyDict == [k \in {} |-> Unbound]

----------------------------------------------------------------------------
(* text_to_instance: the per-branch field constructions.                   *)

\* variant: the label without skip_indexing
ScalarLabelNoSkip(feature, raw) == LabelField(raw, feature, FALSE)
\* ClassLabel branch, and the Value branch for a dtype other than string
ScalarLabel(feature, raw) == LabelField(raw, feature, TRUE)

\* variant: no test of the dtype
ValueAlwaysLabel(value, feature, raw) == ScalarLabel(feature, raw)
\* Value branch
ValueField(value, feature, raw) ==
    IF value.dtype = "string"
    THEN TextField(<<Token(raw)>>)
    ELSE ScalarLabel(feature, raw)

\* Sequence of strings: field_list
SequenceTextList(raw) ==
    [k \in 1..Len(raw) |-> TextField(<<Token(raw[k])>>)]

\* variant: the labels in LabelField's default namespace
SequenceLabelListDefaultNamespace(feature, raw) ==
    [k \in 1..Len(raw) |-> LabelField(raw[k], "labels", TRUE)]
\* Sequence of ClassLabel: field_list
SequenceLabelList(feature, raw) ==
    [k \in 1..Len(raw) |-> LabelField(raw[k], feature, TRUE)]

\* variant: empty lists are kept
NeverSkipped(field_list) == FALSE
\* `if len(field_list) == 0: continue`
IsSkipped(field_list) == Len(field_list) = 0

\* Translation branch
TranslationField(input_dict) ==
    LET langs == DictKeys(input_dict)
        field_langs ==
            [k \in 1..Len(langs) |-> LabelField(langs[k], "languages", FALSE)]
        langs_field == ListField(field_langs)
        texts ==
            [k \in 1..Len(langs) |->
                TextField(<<Token(DictGet(input_dict, langs[k]))>>)]
    IN  ListField(<<langs_field, ListField(texts)>>)

\* TranslationVariableLanguages branch
TranslationVariableLanguagesField(input_dict) ==
    LET langs == input_dict["language"]
        field_langs ==
            [k \in 1..Len(langs) |-> LabelField(langs[k], "languages", FALSE)]
        langs_field == ListField(field_langs)
        texts ==
            [k \in 1..Len(langs) |->
                TextField(<<Token(
                    input_dict["translation"][index(langs, langs[k])])>>)]
    IN  ListField(<<langs_field, ListField(texts)>>)

----------------------------------------------------------------------------
(* text_to_instance: the loop over the schema.                             *)
(* A frame is the state of one call: the locals `field` and `fields`, and  *)
(* the exception that ended the call ("none" while it runs).               *)

Raise(frame, exc) == [frame EXCEPT !.exc = exc]

\* `field = ...` of a branch followed by `fields[feature] = field`
Assign(frame, feature, f) ==
    [frame EXCEPT !.field = f, !.fields = DictPut(@, feature, f)]

\* `fields[feature] = field` reached without an assignment in this iteration
StoreCurrent(frame, feature) ==
    IF IsBound(frame.field)
    THEN [frame EXCEPT !.fields = DictPut(@, feature, frame.field)]
    ELSE Raise(frame, "UnboundLocalError")

\* one iteration of `for feature in features`
Iteration(frame, feature, value, entry) ==
    IF isinstance(value, "ClassLabel") THEN
        Assign(frame, feature, ScalarLabel(feature, entry[feature]))
    ELSE IF isinstance(value, "Value") THEN
        Assign(frame, feature, ValueField(value, feature, entry[feature]))
    ELSE IF isinstance(value, "Sequence") THEN
        IF ~HasDtype(value.feature) THEN
            Raise(frame, "AttributeError")
        ELSE IF value.feature.dtype = "string" THEN
            LET field_list == SequenceTextList(entry[feature])
            IN  IF IsSkipped(field_list) THEN frame
                ELSE Assign(frame, feature, ListField(field_list))
        ELSE IF isinstance(value.feature, "ClassLabel") THEN
            LET field_list == SequenceLabelList(feature, entry[feature])
            IN  IF IsSkipped(field_list) THEN frame
                ELSE Assign(frame, feature, ListField(field_list))
        ELSE StoreCurrent(frame, feature)
    ELSE IF isinstance(value, "Translation") THEN
        IF value.dtype = "dict"
        THEN Assign(frame, feature, TranslationField(entry[feature]))
        ELSE StoreCurrent(frame, feature)
    ELSE IF isinstance(value, "TranslationVariableLanguages") THEN
        IF value.dtype = "dict"
        THEN Assign(frame, feature,
                    TranslationVariableLanguagesField(entry[feature]))
        ELSE StoreCurrent(frame, feature)
    ELSE Raise(frame, "ValueError")

RECURSIVE Loop(_, _, _, _)
Loop(frame, schema, k, entry) ==
    IF k > Len(schema) \/ frame.exc # "none" THEN frame
    ELSE Loop(Iteration(frame, schema[k][1], schema[k][2], entry),
              schema, k + 1, entry)

\* the value of `field` when a call starts: a fresh frame binds nothing
FreshField == Unbound

\* the frame of a call at its end
Call(schema, entry) ==
    Loop([field |-> FreshField, fields |-> EmptyDict, exc |-> "none"],
         schema, 1, entry)

\* what the caller of text_to_instance gets: Instance(fields) or the exception
Outcome(frame) ==
    IF frame.exc = "none"
    THEN [status |-> "ok", instance |-> frame.fields]
    ELSE [status |-> frame.exc]

NotYet == [status |-> "NotYet"]

----------------------------------------------------------------------------
(* The loaded split: schemas and raw entries that conform to them.         *)

SeqsUpTo(S, n) == UNION { [1..k -> S] : k \in 0..n }

\* raw Translation values: language -> text, every language at most once
TranslationDicts(langs, texts, n) ==
    { d \in UNION { [1..k -> langs \X texts] : k \in 1..n } :
        \A i, j \in 1..Len(d) : d[i][1] = d[j][1] => i = j }

\* raw TranslationVariableLanguages values: two parallel lists
VariableLanguagesDicts(langs, texts, n) ==
    UNION { { [language |-> l, translation |-> t] :
                l \in [1..k -> langs], t \in [1..k -> texts] } : k \in 1..n }

\* the raw values an entry may hold for a feature of this descriptor
RawValues(value, texts, langs, n) ==
    IF isinstance(value, "ClassLabel") THEN ClassIndices
    ELSE IF isinstance(value, "Value") THEN
        IF value.dtype = "string" THEN texts ELSE ClassIndices
    ELSE IF isinstance(value, "Sequence") THEN
        IF ~HasDtype(value.feature) THEN { [text |-> <<"hello world">>] }
        ELSE IF value.feature.dtype = "string" THEN SeqsUpTo(texts, n)
        ELSE SeqsUpTo(ClassIndices, n)
    ELSE IF isinstance(value, "Translation") THEN
        TranslationDicts(langs, texts, n)
    ELSE IF isinstance(value, "TranslationVariableLanguages") THEN
        VariableLanguagesDicts(langs, texts, n)
    ELSE { <<<<0>>>> }

RECURSIVE Entries(_, _, _, _, _)
Entries(schema, k, texts, langs, n) ==
    IF k = 0 THEN { EmptyDict }
    ELSE { DictPut(e, schema[k][1], v) :
             e \in Entries(schema, k - 1, texts, langs, n),
             v \in RawValues(schema[k][2], texts, langs, n) }

Schemas ==
    UNION { { [k \in 1..m |-> <<FeatureNames[k], d[k]>>] :
                d \in [1..m -> Descriptors] } : m \in 1..Len(FeatureNames) }

\* splits of at most one entry draw it from the full domains, longer splits
\* from the reduced ones
Datasets(schema) ==
    UNION { [1..n -> IF n <= 1
                     THEN Entries(schema, Len(schema), Texts, Langs, MaxLen)
                     ELSE Entries(schema, Len(schema), FewTexts, FewLangs, 1)]
            : n \in 0..MaxRecords }

----------------------------------------------------------------------------
(* The reader.                                                             *)

Init ==
    /\ features \in Schemas
    /\ dataset \in Datasets(features)
    /\ cursor = 0
    /\ gen = "suspended"
    /\ raised = "none"
    /\ instances = <<>>
    /\ results = [i \in 1..Len(dataset) |-> NotYet]

\* variant: an Instance without fields is not yielded
YieldUnlessEmpty(yielded, instance) ==
    IF DOMAIN instance = {} THEN yielded ELSE Append(yielded, instance)
\* `yield self.text_to_instance(entry)`
Yield(yielded, instance) == Append(yielded, instance)

\* _read resumed with an entry left, and text_to_instance returns
ReadYield ==
    /\ gen = "suspended"
    /\ cursor < Len(dataset)
    /\ LET frame == Call(features, dataset[cursor + 1])
       IN  /\ frame.exc = "none"
           /\ instances' = Yield(instances, frame.fields)
    /\ cursor' = cursor + 1
    /\ UNCHANGED <<features, dataset, gen, raised, results>>

\* _read resumed with an entry left, and text_to_instance raises: the
\* exception leaves the generator, which is finished from then on
ReadRaise ==
    /\ gen = "suspended"
    /\ cursor < Len(dataset)
    /\ LET frame == Call(features, dataset[cursor + 1])
       IN  /\ frame.exc # "none"
           /\ raised' = frame.exc
    /\ cursor' = cursor + 1
    /\ gen' = "failed"
    /\ UNCHANGED <<features, dataset, instances, results>>

\* _read resumed with no entry left
ReadStop ==
    /\ gen = "suspended"
    /\ cursor = Len(dataset)
    /\ gen' = "exhausted"
    /\ UNCHANGED <<features, dataset, cursor, raised, instances, results>>

\* a caller converts entry i of the split directly
text_to_instance(i) ==
    /\ LET frame == Call(features, dataset[i])
       IN  results' = [results EXCEPT ![i] = Outcome(frame)]
    /\ UNCHANGED <<features, dataset, cursor, gen, raised, instances>>

Next ==
    \/ ReadYield
    \/ ReadRaise
    \/ ReadStop
    \/ \E i \in 1..Len(dataset) : text_to_instance(i)

Spec == Init /\ [][Next]_vars

----------------------------------------------------------------------------
(* Properties.  The records a run has produced are the Instances yielded   *)
(* by _read (instances[i] comes from dataset[i]) and the Instances that    *)
(* direct calls returned (results[i] comes from dataset[i]).               *)

Converted(i) == results[i].status # "NotYet"
Returned(i) == results[i].status = "ok"

\* P holds of every produced record, paired with the entry it came from
EveryRecord(P(_, _)) ==
    /\ \A i \in 1..Len(dataset) :
          Returned(i) => P(dataset[i], results[i].instance)
    /\ \A i \in 1..Len(instances) : P(dataset[i], instances[i])

\* the descriptors the conversion table of the docstring lists
InTable(value) ==
    value \in { ClassLabel, Value("string"), Value("int32"),
                Sequence(Value("string")), Sequence(ClassLabel),
                Translation, TranslationVariableLanguages }

SupportedClasses ==
    { "ClassLabel", "Value", "Sequence", "Translation",
      "TranslationVariableLanguages" }

\* a Sequence feature of inner type string or ClassLabel
IsListFeature(value) ==
    value \in { Sequence(Value("string")), Sequence(ClassLabel) }

\* a Sequence feature of any other inner type
IsUnhandledSequence(value) ==
    value.cls = "Sequence" /\ ~IsListFeature(value)

\* C1: reading a split whose schema holds only features of the conversion
\* table never fails, yields one Instance per entry pulled, the i-th being
\* the conversion of the i-th entry, and ends with as many Instances as the
\* split has entries.
C1_OneInstancePerEntry ==
    (\A k \in 1..Len(features) : InTable(features[k][2])) =>
        /\ gen # "failed"
        /\ Len(instances) = cursor
        /\ \A i \in 1..Len(instances) :
              instances[i] = Call(features, dataset[i]).fields
        /\ gen = "exhausted" => Len(instances) = Len(dataset)

\* a split of two entries read to the end, the first giving an Instance
\* without fields
C1_Witness ==
    /\ \A k \in 1..Len(features) : InTable(features[k][2])
    /\ gen = "exhausted"
    /\ Len(dataset) = 2
    /\ Len(instances) = 2
    /\ instances[1] # instances[2]
    /\ DOMAIN instances[1] = {}

\* C2: the keys of a produced record are exactly the schema's feature names
\* except those of Sequence(string) / Sequence(ClassLabel) features whose
\* raw list is empty.
C2_KeySet ==
    EveryRecord(LAMBDA entry, instance :
        DOMAIN instance =
            { features[k][1] : k \in
                { j \in 1..Len(features) :
                    ~(/\ IsListFeature(features[j][2])
                      /\ Len(entry[features[j][1]]) = 0) } })

\* a record whose second feature, an empty list, is left out
C2_Witness ==
    \E i \in 1..Len(dataset) :
        /\ Returned(i)
        /\ Len(features) = 2
        /\ IsListFeature(features[2][2])
        /\ Len(dataset[i][features[2][1]]) = 0
        /\ DOMAIN results[i].instance = {features[1][1]}

\* C3: when the schema holds a feature whose class is outside the supported
\* set, every conversion fails with the unsupported-feature-type error
\* (ValueError) and no record is produced.
C3_UnsupportedTypeError ==
    (\E k \in 1..Len(features) : features[k][2].cls \notin SupportedClasses) =>
        /\ instances = <<>>
        /\ raised \in {"none", "ValueError"}
        /\ \A i \in 1..Len(dataset) :
              Converted(i) => results[i].status = "ValueError"

\* The output clause of that statement alone: with such a schema no record
\* is produced, wherever the unsupported feature sits.
C3_NoRecordProduced ==
    (\E k \in 1..Len(features) : features[k][2].cls \notin SupportedClasses) =>
        /\ instances = <<>>
        /\ \A i \in 1..Len(dataset) : ~Returned(i)

\* C4: a Translation feature becomes a pair of lists of the mapping's
\* length: labels of namespace "languages", one per language code in the
\* mapping's iteration order, and one-token texts, the p-th being the
\* translation of the p-th language code.
C4_Translation ==
    EveryRecord(LAMBDA entry, instance :
        \A k \in 1..Len(features) :
            features[k][2].cls = "Translation" =>
                LET d == entry[features[k][1]]
                    out == instance[features[k][1]]
                IN  /\ out.type = "ListField"
                    /\ Len(out.field_list) = 2
                    /\ out.field_list[1].type = "ListField"
                    /\ out.field_list[2].type = "ListField"
                    /\ Len(out.field_list[1].field_list) = Len(d)
                    /\ Len(out.field_list[2].field_list) = Len(d)
                    /\ \A p \in 1..Len(d) :
                          LET lang == out.field_list[1].field_list[p]
                              text == out.field_list[2].field_list[p]
                          IN  /\ lang.type = "LabelField"
                              /\ lang.label = d[p][1]
                              /\ lang.label_namespace = "languages"
                              /\ text = [type |-> "TextField",
                                         tokens |-> <<[text |-> d[p][2]]>>])

\* a record converted from a mapping of two languages
C4_Witness ==
    \E i \in 1..Len(dataset) :
        /\ Returned(i)
        /\ features[1][2].cls = "Translation"
        /\ dataset[i][features[1][1]] =
              << <<"fr", "bonjour">>, <<"en", "hello world">> >>

\* C5: a TranslationVariableLanguages feature becomes a pair of lists of the
\* language list's length: labels of namespace "languages" in the list's
\* order, and one-token texts, the p-th holding the translation stored at
\* the first position where language[p] occurs.
C5_VariableLanguages ==
    EveryRecord(LAMBDA entry, instance :
        \A k \in 1..Len(features) :
            features[k][2].cls = "TranslationVariableLanguages" =>
                LET d == entry[features[k][1]]
                    n == Len(d.language)
                    out == instance[features[k][1]]
                IN  /\ out.type = "ListField"
                    /\ Len(out.field_list) = 2
                    /\ out.field_list[1].type = "ListField"
                    /\ out.field_list[2].type = "ListField"
                    /\ Len(out.field_list[1].field_list) = n
                    /\ Len(out.field_list[2].field_list) = n
                    /\ \A p \in 1..n :
                          LET lang == out.field_list[1].field_list[p]
                              text == out.field_list[2].field_list[p]
                          IN  /\ lang.type = "LabelField"
                              /\ lang.label = d.language[p]
                              /\ lang.label_namespace = "languages"
                              /\ \A q \in 1..p :
                                    (/\ d.language[q] = d.language[p]
                                     /\ \A j \in 1..(q - 1) :
                                           d.language[j] # d.language[p])
                                    => text = [type |-> "TextField",
                                               tokens |->
                                                 <<[text |-> d.translation[q]]>>])

\* a record converted from a language list that repeats a code, the two
\* occurrences carrying different translations
C5_Witness ==
    \E i \in 1..Len(dataset) :
        /\ Returned(i)
        /\ features[1][2].cls = "TranslationVariableLanguages"
        /\ dataset[i][features[1][1]] =
              [language |-> <<"en", "en">>,
               translation |-> <<"hello world", "bonjour">>]
        /\ results[i].instance[features[1][1]].field_list[2].field_list[2] =
              [type |-> "TextField", tokens |-> <<[text |-> "hello world"]>>]

\* C6: a Value feature of dtype string becomes a text field of one token,
\* the whole raw string; a ClassLabel feature or a Value feature of another
\* dtype becomes a label field holding the raw value, with the feature name
\* as namespace, marked pre-indexed.
C6_Scalars ==
    EveryRecord(LAMBDA entry, instance :
        \A k \in 1..Len(features) :
            LET value == features[k][2]
                name == features[k][1]
            IN  /\ (value.cls = "Value" /\ value.dtype = "string") =>
                      instance[name] =
                          [type |-> "TextField",
                           tokens |-> <<[text |-> entry[name]]>>]
                /\ (\/ value.cls = "ClassLabel"
                    \/ value.cls = "Value" /\ value.dtype # "string") =>
                      instance[name] =
                          [type |-> "LabelField", label |-> entry[name],
                           label_namespace |-> name, skip_indexing |-> TRUE])

\* a record with a string Value holding whitespace and an int32 Value
C6_Witness ==
    \E i \in 1..Len(dataset) :
        /\ Returned(i)
        /\ Len(features) = 2
        /\ features[1][2] = Value("string")
        /\ features[2][2] = Value("int32")
        /\ dataset[i][features[1][1]] = "hello world"
        /\ dataset[i][features[2][1]] = 1

\* C7: a Sequence(string) / Sequence(ClassLabel) feature with a raw list of
\* n > 0 elements becomes a list field of n elements, the p-th built from
\* the p-th raw element: a one-token text field, respectively a pre-indexed
\* label field whose namespace is the feature name.
C7_Sequences ==
    EveryRecord(LAMBDA entry, instance :
        \A k \in 1..Len(features) :
            LET value == features[k][2]
                name == features[k][1]
            IN  (IsListFeature(value) /\ Len(entry[name]) > 0) =>
                    /\ instance[name].type = "ListField"
                    /\ Len(instance[name].field_list) = Len(entry[name])
                    /\ \A p \in 1..Len(entry[name]) :
                          instance[name].field_list[p] =
                              IF value.feature.dtype = "string"
                              THEN [type |-> "TextField",
                                    tokens |-> <<[text |-> entry[name][p]]>>]
                              ELSE [type |-> "LabelField",
                                    label |-> entry[name][p],
                                    label_namespace |-> name,
                                    skip_indexing |-> TRUE])

\* a record with a two-element list of each kind
C7_Witness ==
    \E i \in 1..Len(dataset) :
        /\ Returned(i)
        /\ Len(features) = 2
        /\ features[1][2] = Sequence(Value("string"))
        /\ features[2][2] = Sequence(ClassLabel)
        /\ dataset[i][features[1][1]] = <<"bonjour", "hello world">>
        /\ dataset[i][features[2][1]] = <<1, 0>>

\* C9 (its clause on the output): when the schema holds a Sequence feature
\* whose inner type is neither string nor ClassLabel, no conversion produces
\* a record.
C9_UnhandledSequenceNeverConverted ==
    (\E k \in 1..Len(features) : IsUnhandledSequence(features[k][2])) =>
        /\ instances = <<>>
        /\ \A i \in 1..Len(dataset) : ~Returned(i)

\* every label field inside f is marked pre-indexed
RECURSIVE LabelsPreIndexed(_)
LabelsPreIndexed(f) ==
    IF f.type = "LabelField" THEN f.skip_indexing
    ELSE IF f.type = "ListField"
         THEN \A p \in 1..Len(f.field_list) : LabelsPreIndexed(f.field_list[p])
         ELSE TRUE

\* C10 as stated: every label field of every produced record is pre-indexed.
C10_AllLabelsPreIndexed ==
    EveryRecord(LAMBDA entry, instance :
        \A name \in DOMAIN instance : LabelsPreIndexed(instance[name]))

\* C10 as amended: the labels built for ClassLabel features, Value features
\* of a dtype other than string and Sequence(ClassLabel) elements are
\* pre-indexed; the language labels built for Translation and
\* TranslationVariableLanguages features are not.
C10_LabelsPreIndexedExceptLanguages ==
    EveryRecord(LAMBDA entry, instance :
        \A k \in 1..Len(features) :
            LET value == features[k][2]
                name == features[k][1]
            IN  /\ (\/ value.cls = "ClassLabel"
                    \/ value.cls = "Value" /\ value.dtype # "string") =>
                      /\ instance[name].type = "LabelField"
                      /\ instance[name].skip_indexing
                /\ (value = Sequence(ClassLabel) /\ name \in DOMAIN instance) =>
                      \A p \in 1..Len(instance[name].field_list) :
                          /\ instance[name].field_list[p].type = "LabelField"
                          /\ instance[name].field_list[p].skip_indexing
                /\ value.cls \in {"Translation", "TranslationVariableLanguages"} =>
                      LET langs == instance[name].field_list[1].field_list
                      IN  /\ Len(langs) > 0
                          /\ \A p \in 1..Len(langs) :
                                /\ langs[p].type = "LabelField"
                                /\ ~langs[p].skip_indexing)

\* a record holding Sequence(ClassLabel) labels and Translation languages
C10_Witness ==
    \E i \in 1..Len(dataset) :
        /\ Returned(i)
        /\ Len(features) = 2
        /\ features[1][2] = Sequence(ClassLabel)
        /\ features[2][2] = Translation
        /\ Len(dataset[i][features[1][1]]) = 2
        /\ Len(dataset[i][features[2][1]]) = 2

====
